---- MODULE Spec2Model ----
(***************************************************************************)
(* mob-claude: the start / next / done lifecycle of a mob session, the     *)
(* reconciliation of the local plan file with the dashboard's copy, and    *)
(* the recording of one rotation summary per hand-off.                     *)
(*                                                                         *)
(* One process runs one command to completion, so every command is one     *)
(* action.  The state is what survives the process: the files under        *)
(* .claude/.  The configuration file, the dashboard, the mob tool, git and *)
(* the summarization backend are the environment: each command draws what  *)
(* they answer.  What happened inside the command (the external calls it   *)
(* made, in order, what failed, the Session seen by the mob tool, what was *)
(* sent to the dashboard) is kept in the observation variable `last`       *)
(* until the process exits.                                                *)
(***************************************************************************)
EXTENDS Integers, Sequences, FiniteSets, TLC

VARIABLES
    session,       \* .claude/mob/current.json
    planFiles,     \* .claude/plans/: file name -> content, for the files that exist
    summaryFiles,  \* .claude/mob/summaries/: file name -> content
    clock,         \* wall clock, in ticks of 1/TicksPerSecond second
    cmdsLeft,      \* how many more commands are followed
    faultsLeft,    \* how many more steps of these commands may fail
    last           \* observation of the command that has just run, until it exits

vars == <<session, planFiles, summaryFiles, clock, cmdsLeft, faultsLeft, last>>

-----------------------------------------------------------------------------
(* Bounds and small input sets *)

MaxClock == 2
MaxCmds == 3
MaxFaults == 1
MaxStepFaults == 8
MaxAscii == 101
MaxWide == 2
MaxNameLen == 4
TicksPerSecond == 2

Drivers == {"ann", "bob"}
Plans == {"A", "B"}
\* A note is a Go string: a sequence of bytes.  "e1", "e2" are the two bytes of one
\* character outside ASCII; every other byte is a character of its own.
Note == <<"n", "o", "t", "e">>
Notes == {<<>>, Note}

\* what `git branch --show-current` may answer after `mob start`
GitBranches == { <<"m","o","b","/","a","/","b">>, <<"a","-","b","-","w","i","p">> }

-----------------------------------------------------------------------------
(* Strings *)

RECURSIVE Str(_)
Str(s) == IF s = <<>> THEN "" ELSE Head(s) \o Str(Tail(s))

HasPrefix(s, p) == Len(s) >= Len(p) /\ SubSeq(s, 1, Len(p)) = p
HasSuffix(s, p) == Len(s) >= Len(p) /\ SubSeq(s, Len(s) - Len(p) + 1, Len(s)) = p
TrimPrefix(s, p) == IF HasPrefix(s, p) THEN SubSeq(s, Len(p) + 1, Len(s)) ELSE s
TrimSuffix(s, p) == IF HasSuffix(s, p) THEN SubSeq(s, 1, Len(s) - Len(p)) ELSE s
ReplaceAll(s, old, new) == [i \in 1..Len(s) |-> IF s[i] = old THEN new ELSE s[i]]

-----------------------------------------------------------------------------
(* internal/mob/wrapper.go *)

GetBaseBranch(branch) ==
    TrimSuffix(TrimPrefix(branch, <<"m","o","b","/">>), <<"-","w","i","p">>)

BaseBranches == { GetBaseBranch(b) : b \in GitBranches }

-----------------------------------------------------------------------------
(* internal/config/config.go *)

NoSession ==
    [exists |-> FALSE, branch |-> <<>>, repoUrl |-> "", startedAt |-> 0,
     driverName |-> "", workstreamId |-> ""]

DefaultConfig == [teamName |-> "", skipSummary |-> FALSE]

\* json.MarshalIndent of a CurrentSession: the members written to current.json;
\* workstreamId is omitempty
SessionMembers == {"branch", "repoUrl", "startedAt", "driverName", "workstreamId"}

MarshalSessionWithoutWorkstream(s) ==
    [k \in SessionMembers \ {"workstreamId"} |-> s[k]]

MarshalSession(s) ==
    [k \in (IF s.workstreamId = "" THEN SessionMembers \ {"workstreamId"} ELSE SessionMembers)
       |-> s[k]]

\* json.Unmarshal into a zero CurrentSession: a missing member keeps its zero value
UnmarshalSession(data) ==
    [exists |-> TRUE,
     branch |-> IF "branch" \in DOMAIN data THEN data["branch"] ELSE <<>>,
     repoUrl |-> IF "repoUrl" \in DOMAIN data THEN data["repoUrl"] ELSE "",
     startedAt |-> IF "startedAt" \in DOMAIN data THEN data["startedAt"] ELSE 0,
     driverName |-> IF "driverName" \in DOMAIN data THEN data["driverName"] ELSE "",
     workstreamId |-> IF "workstreamId" \in DOMAIN data THEN data["workstreamId"] ELSE ""]

\* current.json is kept as the session it decodes to; a missing file is no session
LoadCurrentSession(cur) == cur

\* os.WriteFile of current.json: the file holds the new session, or the write failed
SaveCurrentSession(cur, s, ok) == IF ok THEN UnmarshalSession(MarshalSession(s)) ELSE cur

\* a faulty clear that reports success and leaves current.json in place
ClearCurrentSessionKeeps(cur, ok) == cur

\* os.Remove of current.json; a missing file is not an error
ClearCurrentSession(cur, ok) == IF ok \/ ~cur.exists THEN NoSession ELSE cur
ClearCurrentSessionErr(cur, ok) == ~ok /\ cur.exists

-----------------------------------------------------------------------------
(* internal/plans/manager.go *)

\* safeBranch with only the forward slash replaced
PlanFileNameSlashOnly(branch) ==
    <<"m", "o", "b", "-">> \o ReplaceAll(branch, "/", "-") \o <<".", "m", "d">>

\* filename := fmt.Sprintf("mob-%s.md", safeBranch), character by character
PlanFileName(branch) ==
    <<"m", "o", "b", "-">> \o ReplaceAll(ReplaceAll(branch, "/", "-"), "\\", "-")
        \o <<".", "m", "d">>

GetPlanPath(branch) == Str(PlanFileName(branch))

LoadPlan(files, branch) ==
    IF GetPlanPath(branch) \in DOMAIN files THEN files[GetPlanPath(branch)] ELSE ""

\* a faulty SavePlan whose failed write removes the file
SavePlanRemovesOnFailure(files, branch, content, ok) ==
    IF ok
    THEN [p \in DOMAIN files \cup {GetPlanPath(branch)} |->
            IF p = GetPlanPath(branch) THEN content ELSE files[p]]
    ELSE [p \in DOMAIN files \ {GetPlanPath(branch)} |-> files[p]]

SavePlan(files, branch, content, ok) ==
    IF ok
    THEN [p \in DOMAIN files \cup {GetPlanPath(branch)} |->
            IF p = GetPlanPath(branch) THEN content ELSE files[p]]
    ELSE files

\* time.Format(time.RFC3339) and the summary file name both keep whole seconds
FormatSeconds(t) == t \div TicksPerSecond

DefaultPlanText(branch, now) ==
    "# Mob Session: " \o Str(branch) \o " ... Created: " \o ToString(FormatSeconds(now))

CreateDefaultPlan(files, branch, now, ok) ==
    SavePlan(files, branch, DefaultPlanText(branch, now), ok)


NoSummary ==
    [exists |-> FALSE, timestamp |-> 0, driverName |-> "", driverNote |-> <<>>,
     tldr |-> <<>>, changes |-> <<>>, nextSteps |-> <<>>, branch |-> <<>>]

SummaryFileName(summary) == ToString(FormatSeconds(summary.timestamp)) \o ".json"

\* the JSON text SaveSummary writes: the timestamp is formatted to whole seconds
SummaryFileContent(summary) ==
    [timestamp |-> FormatSeconds(summary.timestamp), driverName |-> summary.driverName,
     driverNote |-> summary.driverNote, tldr |-> summary.tldr,
     changes |-> summary.changes, nextSteps |-> summary.nextSteps,
     branch |-> summary.branch]

\* a faulty SaveSummary that names the file by the unformatted timestamp
SaveSummaryUnformatted(files, summary, ok) ==
    IF ok
    THEN [f \in DOMAIN files \cup {ToString(summary.timestamp) \o ".json"} |->
            IF f = ToString(summary.timestamp) \o ".json"
            THEN SummaryFileContent(summary) ELSE files[f]]
    ELSE files

SaveSummary(files, summary, ok) ==
    IF ok
    THEN [f \in DOMAIN files \cup {SummaryFileName(summary)} |->
            IF f = SummaryFileName(summary) THEN SummaryFileContent(summary) ELSE files[f]]
    ELSE files

-----------------------------------------------------------------------------
(* internal/api: the dashboard client *)

\* A reply to GET .../plan: a transport failure, or a status with a body.  The body
\* is the JSON object {"planText": text} (json) or the bare text.
RawBody(reply) ==
    IF reply.kind = "json" THEN "{\"planText\":\"" \o reply.text \o "\"}" ELSE reply.text

GetPlan(reply) ==
    CASE reply.kind = "neterr"   -> [err |-> TRUE,  text |-> ""]
      [] reply.kind = "notfound" -> [err |-> FALSE, text |-> ""]
      [] reply.kind = "apierr"   -> [err |-> TRUE,  text |-> ""]
      [] OTHER ->
           IF reply.kind = "json" /\ reply.text # ""
           THEN [err |-> FALSE, text |-> reply.text]
           ELSE [err |-> FALSE, text |-> RawBody(reply)]

\* the replies the dashboard can give: it holds no plan for the branch, an empty
\* one, or one of Plans
PlanReplies ==
    { [kind |-> k, text |-> ""] : k \in {"neterr", "apierr", "notfound", "json"} }
    \cup { [kind |-> k, text |-> t] : k \in {"json", "plain"}, t \in Plans }

\* PUT .../plan {planText}: what the dashboard stores for the branch afterwards
UpdatePlan(branch, planText, ok) ==
    IF ok THEN <<[branch |-> branch, planText |-> planText]>> ELSE <<>>

\* POST .../rotations: the rotation the dashboard records
CreateRotation(branch, rotation, ok) ==
    IF ok THEN <<[rotation EXCEPT !.branch = branch]>> ELSE <<>>

WorkstreamId(branch) == "ws:" \o Str(branch)

-----------------------------------------------------------------------------
(* internal/summary/generator.go *)

\* The backend's standard output as a sequence of tokens: code fences, braces,
\* white space, prose, and the members of a JSON object ("x0": the member is
\* present with an empty value).
Members == {"tldr", "tldr0", "changes", "changes0", "nextSteps", "nextSteps0"}

RECURSIVE TrimLeft(_)
TrimLeft(r) == IF r # <<>> /\ Head(r) = " " THEN TrimLeft(Tail(r)) ELSE r
RECURSIVE TrimRight(_)
TrimRight(r) ==
    IF r # <<>> /\ r[Len(r)] = " " THEN TrimRight(SubSeq(r, 1, Len(r) - 1)) ELSE r
TrimSpace(r) == TrimRight(TrimLeft(r))

\* strings.Index / strings.LastIndex, 1-based, 0 for "not found"
Index(r, tok) ==
    IF \E i \in 1..Len(r) : r[i] = tok
    THEN CHOOSE i \in 1..Len(r) : r[i] = tok /\ \A j \in 1..(i - 1) : r[j] # tok
    ELSE 0
LastIndex(r, tok) ==
    IF \E i \in 1..Len(r) : r[i] = tok
    THEN CHOOSE i \in 1..Len(r) : r[i] = tok /\ \A j \in (i + 1)..Len(r) : r[j] # tok
    ELSE 0

Unfence(r) ==
    IF HasPrefix(r, <<"fence:json">>)
    THEN TrimSpace(TrimSuffix(TrimPrefix(r, <<"fence:json">>), <<"fence">>))
    ELSE IF HasPrefix(r, <<"fence">>)
    THEN TrimSpace(TrimSuffix(TrimPrefix(r, <<"fence">>), <<"fence">>))
    ELSE r

\* json.Unmarshal into GeneratedSummary: the span must be one object; a member that
\* is missing or empty leaves the zero value; the last occurrence of a member wins
MemberSet(r, full, empty) ==
    /\ \E i \in 1..Len(r) : r[i] \in {full, empty}
    /\ r[CHOOSE i \in 1..Len(r) :
            r[i] \in {full, empty} /\ \A j \in (i + 1)..Len(r) : r[j] \notin {full, empty}] = full

Unmarshal(span) ==
    IF /\ Len(span) >= 2 /\ span[1] = "{" /\ span[Len(span)] = "}"
       /\ \A i \in 2..(Len(span) - 1) : span[i] \in Members \cup {" "}
    THEN [err |-> FALSE,
          tldr |-> IF MemberSet(span, "tldr", "tldr0") THEN <<"t", "l", "d", "r">> ELSE <<>>,
          changes |-> IF MemberSet(span, "changes", "changes0")
                      THEN <<"generated change">> ELSE <<>>,
          nextSteps |-> IF MemberSet(span, "nextSteps", "nextSteps0")
                        THEN <<"generated step">> ELSE <<>>]
    ELSE [err |-> TRUE, tldr |-> <<>>, changes |-> <<>>, nextSteps |-> <<>>]

parseResponse(response) ==
    LET r == Unfence(TrimSpace(response))
        start == Index(r, "{")
        end == LastIndex(r, "}")
    IN  IF start = 0 \/ end = 0 \/ end <= start
        THEN [err |-> TRUE, tldr |-> <<>>, changes |-> <<>>, nextSteps |-> <<>>]
        ELSE Unmarshal(SubSeq(r, start, end))

FallbackLimit == 100
FallbackKeep == 97

\* len(driverNote) counts bytes and driverNote[:97] keeps bytes
Truncate(note) ==
    IF Len(note) > FallbackLimit
    THEN SubSeq(note, 1, FallbackKeep) \o <<".", ".", ".">>
    ELSE note

GenericTldr ==
    <<"R","o","t","a","t","i","o","n"," ","c","o","m","p","l","e","t","e","d">>

fallbackSummary(driverNote, branch, now) ==
    [exists |-> TRUE, timestamp |-> now, driverName |-> "", driverNote |-> driverNote,
     tldr |-> IF driverNote # <<>> THEN Truncate(driverNote) ELSE GenericTldr,
     changes |-> <<"Changes made during rotation">>,
     nextSteps |-> <<"Continue from where the previous driver left off">>,
     branch |-> branch]

Generate(backend, driverNote, branch, now) ==
    IF backend.kind # "output"
    THEN fallbackSummary(driverNote, branch, now)
    ELSE LET generated == parseResponse(backend.out)
         IN  IF generated.err
             THEN fallbackSummary(driverNote, branch, now)
             ELSE [exists |-> TRUE, timestamp |-> now, driverName |-> "",
                   driverNote |-> driverNote, tldr |-> generated.tldr,
                   changes |-> generated.changes, nextSteps |-> generated.nextSteps,
                   branch |-> branch]

-----------------------------------------------------------------------------
(* cmd/mob-claude/main.go *)

\* no request was sent to the dashboard
NoReply == [kind |-> "none", text |-> ""]

NoLast ==
    [cmd |-> "none", result |-> "none", mob |-> "not invoked", calls |-> <<>>,
     fails |-> {}, sessBefore |-> NoSession, sessAtMob |-> NoSession,
     newSession |-> NoSession, branch |-> <<>>, configured |-> FALSE,
     L |-> "", R |-> "", reply |-> NoReply, summary |-> NoSummary, saved |-> 0,
     uploaded |-> <<>>, pushed |-> <<>>, warned |-> {}]

\* what config.Load() returns: the file's content, or an error
Configs == [teamName : {"", "team"}, skipSummary : BOOLEAN]
ConfigLoads == { [ok |-> TRUE, cfg |-> c] : c \in Configs }
               \cup { [ok |-> FALSE, cfg |-> DefaultConfig] }

\* cfg.TeamName != "" && cfg.APIURL != "": Load fills in a missing apiUrl
Configured(c) == c.teamName # ""

\* a faulty decision that lets an empty fetched plan replace the local one
PlanDecisionAdoptsEmpty(planText, localPlan) ==
    IF planText = "" /\ localPlan = "" THEN "create"
    ELSE IF planText # localPlan THEN "adopt"
    ELSE "keep"

\* a faulty decision that templates whenever nothing was fetched, whatever is stored
PlanDecisionIgnoresLocal(planText, localPlan) ==
    IF planText = "" THEN "create"
    ELSE IF planText # localPlan THEN "adopt"
    ELSE "keep"

\* runStart, "Decide which plan to use"
PlanDecision(planText, localPlan) ==
    IF planText = "" /\ localPlan = "" THEN "create"
    ELSE IF planText # "" /\ planText # localPlan THEN "adopt"
    ELSE "keep"

ApplyPlanDecision(files, branch, planText, localPlan, now, ok) ==
    CASE PlanDecision(planText, localPlan) = "create" ->
            CreateDefaultPlan(files, branch, now, ok)
      [] PlanDecision(planText, localPlan) = "adopt" ->
            SavePlan(files, branch, planText, ok)
      [] OTHER -> files

\* runStart, "Save current session"
NewSession(baseBranch, driverName, now, registered) ==
    [exists |-> TRUE, branch |-> baseBranch, repoUrl |-> "origin",
     startedAt |-> FormatSeconds(now), driverName |-> driverName,
     workstreamId |-> IF registered THEN WorkstreamId(baseBranch) ELSE ""]

\* runNext / runDone: if !skipSummary && !cfg.SkipSummary
ShouldGenerate(skipFlag, c) == ~skipFlag /\ ~c.skipSummary

MinimalSummary(sess, message, now) ==
    [exists |-> TRUE, timestamp |-> now, driverName |-> sess.driverName,
     driverNote |-> message, tldr |-> message, changes |-> <<>>, nextSteps |-> <<>>,
     branch |-> sess.branch]

\* a faulty summary step that leaves the generated summary without its driver
NextSummaryUnattributed(sess, generates, message, backend, now) ==
    IF generates
    THEN Generate(backend, message, sess.branch, now)
    ELSE IF message # <<>> THEN MinimalSummary(sess, message, now)
    ELSE NoSummary

\* runNext, "Generate summary unless skipped"
NextSummary(sess, generates, message, backend, now) ==
    IF generates
    THEN [Generate(backend, message, sess.branch, now) EXCEPT !.driverName = sess.driverName]
    ELSE IF message # <<>> THEN MinimalSummary(sess, message, now)
    ELSE NoSummary

\* runNext, "Upload to API"
NextUploads(c, summaryObj) == Configured(c) /\ summaryObj.exists

\* runNext, "Sync plan to API"
NextPushesPlan(c, summaryObj, planText) == NextUploads(c, summaryObj) /\ planText # ""

\* a faulty final summary that does not look for a Session
DoneSummaryWithoutSession(sess, generates, message, backend, now) ==
    IF generates
    THEN [Generate(backend, message, sess.branch, now) EXCEPT !.driverName = sess.driverName]
    ELSE IF message # <<>> THEN MinimalSummary(sess, message, now)
    ELSE NoSummary

\* runDone, "Generate final summary if we have a session"
DoneSummary(sess, generates, message, backend, now) ==
    IF sess.exists /\ generates
    THEN [Generate(backend, message, sess.branch, now) EXCEPT !.driverName = sess.driverName]
    ELSE NoSummary

\* runDone, "Upload to API"
DoneUploads(c, summaryObj) == Configured(c) /\ summaryObj.exists

\* runDone never calls UpdatePlan
DonePushesPlan(c, summaryObj, planText) == FALSE

RotationRequest(sess, message, summaryObj, planText) ==
    [branch |-> <<>>, driverName |-> sess.driverName, driverNote |-> message,
     summaryTldr |-> summaryObj.tldr, changes |-> summaryObj.changes,
     nextSteps |-> summaryObj.nextSteps, planSnapshot |-> planText,
     startedAt |-> sess.startedAt]

\* the failed steps for which the command prints a "Warning: ..." line.  Generate
\* returns the fallback summary with a nil error, so runNext's warning for a failed
\* generation is never printed; runDone discards every error.
StartWarnings(fails) ==
    fails \cap {"config", "GetPlan", "SavePlan", "CreateWorkstream", "SaveCurrentSession"}
NextWarnings(fails) ==
    fails \cap {"diff", "SaveSummary", "CreateRotation", "UpdatePlan", "ClearCurrentSession"}
DoneWarnings(fails) == {}

\* a step that is issued a second time
WhenTwice(b, x) == IF b THEN <<x, x>> ELSE <<>>

\* a faulty last step that drops the tool's error
MobResultIgnored(step, fails) == "ok"

\* return mobWrapper.Next(args...) / mobWrapper.Done(args...): the command's result
\* is the tool's
MobResult(step, fails) == IF step \in fails THEN "err:" \o step ELSE "ok"

\* a sequence holding x when b, else empty
When(b, x) == IF b THEN <<x>> ELSE <<>>

\* the summarization backend: the CLI is missing or exits with an error, or prints
\* prose, an empty JSON object, or the fenced object it was asked for
BackendOutcomes ==
    { [kind |-> "error", out |-> <<>>],
      [kind |-> "output", out |-> <<"prose">>],
      [kind |-> "output", out |-> <<"{", "}">>],
      [kind |-> "output",
       out |-> <<"fence:json", "{", "tldr", "changes", "nextSteps", "}", "fence">>] }
\* the backend is not called
NoBackend == [kind |-> "none", out |-> <<>>]
BackendFailed(backend) == backend.kind # "output" \/ parseResponse(backend.out).err

-----------------------------------------------------------------------------
(* The state of a fresh working copy *)

Init ==
    /\ session = NoSession
    /\ planFiles = <<>>
    /\ summaryFiles = <<>>
    /\ clock = 0
    /\ cmdsLeft = MaxCmds
    /\ faultsLeft = MaxFaults
    /\ last = NoLast

\* A working copy in use, before one more command: any Session a start has written,
\* and no plan, an edited plan or the template for either branch
InitOne ==
    /\ session \in {NoSession}
                   \cup { NewSession(b, d, 0, reg) :
                             b \in BaseBranches, d \in Drivers, reg \in BOOLEAN }
    /\ planFiles \in {<<>>}
                     \cup { SavePlan(<<>>, b, t, TRUE) : b \in BaseBranches, t \in Plans }
                     \cup { CreateDefaultPlan(<<>>, b, 0, TRUE) : b \in BaseBranches }
    /\ summaryFiles = <<>>
    /\ clock = 0
    /\ cmdsLeft = 1
    /\ faultsLeft = MaxStepFaults
    /\ last = NoLast

\* A working copy in which one rotation has completed and the next driver has
\* started, all within the first second: the summary of the first rotation, the
\* templated plan and the Session of the second start
InitRotated ==
    /\ \E b \in BaseBranches, d \in Drivers :
          /\ session = NewSession(b, d, 0, FALSE)
          /\ planFiles = CreateDefaultPlan(<<>>, b, 0, TRUE)
          /\ summaryFiles \in { SaveSummary(<<>>, MinimalSummary(NewSession(b, d0, 0, FALSE),
                                                                 Note, 0), TRUE) :
                                   d0 \in Drivers }
    /\ clock = 0
    /\ cmdsLeft = MaxCmds - 1
    /\ faultsLeft = MaxFaults
    /\ last = NoLast

\* a command starts when the previous process has exited
CanRun == last = NoLast /\ cmdsLeft > 0

\* the steps of a command that can fail without ending it
StartSteps == {"GetPlan", "SavePlan", "CreateWorkstream", "SaveCurrentSession"}

\* the sets of steps that fail in the next command
Faults(steps) == {f \in SUBSET steps : Cardinality(f) <= faultsLeft}

\* the times time.Now() can show to a command that starts now
Times == clock..MaxClock

\* the command ran at time `now` with these observations; the steps in obs.fails failed
Ran(now, obs) ==
    /\ Cardinality(obs.fails) <= faultsLeft
    /\ clock' = now
    /\ last' = obs
    /\ cmdsLeft' = cmdsLeft - 1
    /\ faultsLeft' = faultsLeft - Cardinality(obs.fails)

\* a faulty tool check that comes after the Session has been cleared
ToolMissingAfterClear ==
    /\ CanRun
    /\ \E c \in {"start", "next", "done"} :
          Ran(clock, [NoLast EXCEPT !.cmd = c, !.result = "err:mob missing",
                             !.calls = <<"ClearCurrentSession", "mob version">>,
                             !.fails = {"mob version"}, !.sessBefore = session])
    /\ session' = ClearCurrentSession(session, TRUE)
    /\ UNCHANGED <<planFiles, summaryFiles>>

\* start, next or done when `mob version` fails
ToolMissing ==
    /\ CanRun
    /\ \E c \in {"start", "next", "done"} :
          Ran(clock, [NoLast EXCEPT !.cmd = c, !.result = "err:mob missing",
                             !.calls = <<"mob version">>, !.fails = {"mob version"},
                             !.sessBefore = session])
    /\ UNCHANGED <<session, planFiles, summaryFiles>>

\* a faulty runStart that fetches and reconciles the plan before it runs `mob start`
StartAbortsAfterPlan ==
    /\ CanRun
    /\ \E b \in BaseBranches :
          /\ planFiles' = ApplyPlanDecision(planFiles, b, "", LoadPlan(planFiles, b),
                                            clock, TRUE)
          /\ Ran(clock, [NoLast EXCEPT !.cmd = "start", !.result = "err:mob start",
                                !.mob = "failed",
                                !.calls = <<"mob version", "GetPlan", "mob start">>,
                                !.fails = {"mob start"}, !.sessBefore = session,
                                !.branch = b])
    /\ UNCHANGED <<session, summaryFiles>>

\* runStart when `mob start` fails, or the branch cannot be read after it
StartAborts ==
    /\ CanRun
    /\ \E why \in {"mob start", "git branch"} :
          Ran(clock, [NoLast EXCEPT !.cmd = "start", !.result = "err:" \o why,
                             !.mob = IF why = "mob start" THEN "failed" ELSE "ok",
                             !.calls = <<"mob version", "mob start">>,
                             !.fails = {why}, !.sessBefore = session])
    /\ UNCHANGED <<session, planFiles, summaryFiles>>

\* runStart when config.Load fails: cfg is nil where cfg.TeamName is read
StartPanics ==
    /\ CanRun
    /\ Ran(clock, [NoLast EXCEPT !.cmd = "start", !.result = "panic", !.mob = "ok",
                          !.calls = <<"mob version", "mob start">>,
                          !.fails = {"config"}, !.warned = StartWarnings({"config"}),
                          !.sessBefore = session])
    /\ UNCHANGED <<session, planFiles, summaryFiles>>

RunStart ==
    /\ CanRun
    /\ \E c \in {x \in Configs : ~x.skipSummary}, gitBranch \in GitBranches,
          driverName \in Drivers, now \in Times :
       \E fails \in Faults(IF Configured(c) THEN StartSteps
                            ELSE StartSteps \ {"GetPlan", "CreateWorkstream"}),
          baseBranch \in {GetBaseBranch(gitBranch)} :
       \E reply \in (IF ~Configured(c) THEN {NoReply}
                     ELSE {r \in PlanReplies : GetPlan(r).err <=> "GetPlan" \in fails}) :
       \E fetched \in {IF Configured(c) THEN GetPlan(reply)
                       ELSE [err |-> FALSE, text |-> ""]} :
       \E planText \in {IF fetched.err THEN "" ELSE fetched.text},
          localPlan \in {LoadPlan(planFiles, baseBranch)} :
       \E writes \in {PlanDecision(planText, localPlan) # "keep"} :
       \E new \in {NewSession(baseBranch, driverName, now,
                              Configured(c) /\ "CreateWorkstream" \notin fails)} :
          /\ "SavePlan" \in fails => writes
          /\ planFiles' = ApplyPlanDecision(planFiles, baseBranch, planText, localPlan,
                                            now, "SavePlan" \notin fails)
          /\ session' = SaveCurrentSession(session, new, "SaveCurrentSession" \notin fails)
          /\ Ran(now, [NoLast EXCEPT
                !.cmd = "start", !.result = "ok", !.mob = "ok",
                !.calls = <<"mob version", "mob start">>
                          \o When(Configured(c), "GetPlan")
                          \o When(writes, "SavePlan")
                          \o When(Configured(c), "CreateWorkstream")
                          \o <<"SaveCurrentSession">>,
                !.fails = fails, !.warned = StartWarnings(fails),
                !.sessBefore = session, !.newSession = new, !.branch = baseBranch,
                !.configured = Configured(c), !.L = localPlan, !.R = planText,
                !.reply = reply])
    /\ UNCHANGED summaryFiles

\* a faulty load that takes an unreadable current.json for a missing one: done
\* goes on without a Session
SessionUnreadableTakenAsAbsent ==
    /\ CanRun
    /\ session.exists
    /\ Ran(clock, [NoLast EXCEPT !.cmd = "done", !.result = "ok", !.mob = "ok",
                          !.calls = <<"mob version", "LoadCurrentSession",
                                      "ClearCurrentSession", "mob done">>,
                          !.fails = {"LoadCurrentSession"}, !.sessBefore = session])
    /\ session' = ClearCurrentSession(session, TRUE)
    /\ UNCHANGED <<planFiles, summaryFiles>>

\* runNext, runDone when current.json exists and cannot be read or parsed
SessionUnreadable ==
    /\ CanRun
    /\ session.exists
    /\ \E c \in {"next", "done"} :
          Ran(clock, [NoLast EXCEPT !.cmd = c, !.result = "err:load session",
                             !.calls = <<"mob version", "LoadCurrentSession">>,
                             !.fails = {"LoadCurrentSession"}, !.sessBefore = session])
    /\ UNCHANGED <<session, planFiles, summaryFiles>>

\* a faulty runNext that lacks the session check and hands off regardless
NextNoSessionHandsOff ==
    /\ CanRun
    /\ ~session.exists
    /\ Ran(clock, [NoLast EXCEPT !.cmd = "next", !.result = "ok", !.mob = "ok",
                          !.calls = <<"mob version", "ClearCurrentSession", "mob next">>,
                          !.sessBefore = session])
    /\ UNCHANGED <<session, planFiles, summaryFiles>>

\* runNext with no current.json
NextNoSession ==
    /\ CanRun
    /\ ~session.exists
    /\ Ran(clock, [NoLast EXCEPT !.cmd = "next", !.result = "err:no active session",
                          !.calls = <<"mob version">>, !.sessBefore = session])
    /\ UNCHANGED <<session, planFiles, summaryFiles>>

RunNext ==
    /\ CanRun
    /\ session.exists
    /\ \E load \in ConfigLoads, skipFlag \in BOOLEAN, message \in Notes, now \in Times :
       \E c \in {IF load.ok THEN load.cfg ELSE DefaultConfig} :
       \E generates \in {ShouldGenerate(skipFlag, c)} :
       \E backend \in (IF generates THEN BackendOutcomes ELSE {NoBackend}) :
       \E summaryObj \in {NextSummary(session, generates, message, backend, now)},
          planText \in {LoadPlan(planFiles, session.branch)} :
       \E uploads \in {NextUploads(c, summaryObj)},
          pushes \in {NextPushesPlan(c, summaryObj, planText)} :
       \E fails \in Faults({"mob next"}
                     \cup (IF ~load.ok THEN {"config"} ELSE {})
                     \cup (IF generates THEN {"diff"} ELSE {})
                     \cup (IF generates /\ BackendFailed(backend) THEN {"claude"} ELSE {})
                     \cup (IF summaryObj.exists THEN {"SaveSummary"} ELSE {})
                     \cup (IF uploads THEN {"CreateRotation"} ELSE {})
                     \cup (IF pushes THEN {"UpdatePlan"} ELSE {})
                     \cup (IF session.exists THEN {"ClearCurrentSession"} ELSE {})) :
       \E cleared \in {ClearCurrentSession(session, "ClearCurrentSession" \notin fails)} :
          /\ ~load.ok => "config" \in fails
          /\ (generates /\ BackendFailed(backend)) => "claude" \in fails
          /\ summaryFiles' = IF summaryObj.exists
                             THEN SaveSummary(summaryFiles, summaryObj,
                                              "SaveSummary" \notin fails)
                             ELSE summaryFiles
          /\ session' = cleared
          /\ Ran(now, [NoLast EXCEPT
                !.cmd = "next",
                !.result = MobResult("mob next", fails),
                !.mob = IF "mob next" \in fails THEN "failed" ELSE "ok",
                !.calls = <<"mob version">>
                          \o When(generates, "claude")
                          \o When(summaryObj.exists, "SaveSummary")
                          \o When(uploads, "CreateRotation")
                          \o When(pushes, "UpdatePlan")
                          \o <<"ClearCurrentSession", "mob next">>,
                !.fails = fails, !.warned = NextWarnings(fails),
                !.sessBefore = session, !.sessAtMob = cleared,
                !.branch = session.branch, !.configured = Configured(c),
                !.L = planText, !.summary = summaryObj,
                !.saved = IF summaryObj.exists /\ "SaveSummary" \notin fails
                          THEN 1 ELSE 0,
                !.uploaded = IF uploads
                             THEN CreateRotation(session.branch,
                                     RotationRequest(session, message, summaryObj, planText),
                                     "CreateRotation" \notin fails)
                             ELSE <<>>,
                !.pushed = IF pushes
                           THEN UpdatePlan(session.branch, planText,
                                           "UpdatePlan" \notin fails)
                           ELSE <<>>])
    /\ UNCHANGED planFiles

RunDone ==
    /\ CanRun
    /\ \E load \in ConfigLoads, skipFlag \in BOOLEAN, message \in Notes, now \in Times :
       \E c \in {IF load.ok THEN load.cfg ELSE DefaultConfig} :
       \E generates \in {session.exists /\ ShouldGenerate(skipFlag, c)} :
       \E backend \in (IF generates THEN BackendOutcomes ELSE {NoBackend}) :
       \E summaryObj \in {DoneSummary(session, generates, message, backend, now)},
          planText \in {LoadPlan(planFiles, session.branch)} :
       \E uploads \in {DoneUploads(c, summaryObj)},
          pushes \in {DonePushesPlan(c, summaryObj, planText)} :
       \E fails \in Faults({"mob done"}
                     \cup (IF ~load.ok THEN {"config"} ELSE {})
                     \cup (IF generates THEN {"diff"} ELSE {})
                     \cup (IF generates /\ BackendFailed(backend) THEN {"claude"} ELSE {})
                     \cup (IF summaryObj.exists THEN {"SaveSummary"} ELSE {})
                     \cup (IF uploads THEN {"CreateRotation"} ELSE {})
                     \cup (IF pushes THEN {"UpdatePlan"} ELSE {})
                     \cup (IF session.exists THEN {"ClearCurrentSession"} ELSE {})) :
       \E cleared \in {ClearCurrentSession(session, "ClearCurrentSession" \notin fails)} :
          /\ ~load.ok => "config" \in fails
          /\ (generates /\ BackendFailed(backend)) => "claude" \in fails
          /\ summaryFiles' = IF summaryObj.exists
                             THEN SaveSummary(summaryFiles, summaryObj,
                                              "SaveSummary" \notin fails)
                             ELSE summaryFiles
          /\ session' = cleared
          /\ Ran(now, [NoLast EXCEPT
                !.cmd = "done",
                !.result = MobResult("mob done", fails),
                !.mob = IF "mob done" \in fails THEN "failed" ELSE "ok",
                !.calls = <<"mob version">>
                          \o When(generates, "claude")
                          \o When(summaryObj.exists, "SaveSummary")
                          \o When(uploads, "CreateRotation")
                          \o When(pushes, "UpdatePlan")
                          \o <<"ClearCurrentSession", "mob done">>,
                !.fails = fails, !.warned = DoneWarnings(fails),
                !.sessBefore = session, !.sessAtMob = cleared,
                !.branch = session.branch, !.configured = Configured(c),
                !.L = planText, !.summary = summaryObj,
                !.saved = IF summaryObj.exists /\ "SaveSummary" \notin fails
                          THEN 1 ELSE 0,
                !.uploaded = IF uploads
                             THEN CreateRotation(session.branch,
                                     RotationRequest(session, message, summaryObj, planText),
                                     "CreateRotation" \notin fails)
                             ELSE <<>>,
                !.pushed = IF pushes
                           THEN UpdatePlan(session.branch, planText,
                                           "UpdatePlan" \notin fails)
                           ELSE <<>>])
    /\ UNCHANGED planFiles

\* runStatus: prints the tool's status, the Session, the plan of its branch (of the
\* checked-out branch when there is no Session) and the latest summary
RunStatus ==
    /\ CanRun
    /\ \E gitBranch \in GitBranches, fails \in Faults({"mob status"}) :
       \E branch \in {IF session.exists THEN session.branch
                       ELSE GetBaseBranch(gitBranch)} :
          Ran(clock, [NoLast EXCEPT !.cmd = "status", !.result = "ok",
                             !.calls = <<"mob status">>, !.fails = fails,
                             !.sessBefore = session, !.branch = branch,
                             !.L = LoadPlan(planFiles, branch)])
    /\ UNCHANGED <<session, planFiles, summaryFiles>>

\* the process exits
Exit ==
    /\ last # NoLast
    /\ last' = NoLast
    /\ UNCHANGED <<session, planFiles, summaryFiles, clock, cmdsLeft, faultsLeft>>

-----------------------------------------------------------------------------
(* The environment between commands: the driver edits the plan *)

EditPlan ==
    /\ last = NoLast
    /\ \E b \in BaseBranches, text \in Plans :
          planFiles' = SavePlan(planFiles, b, text, TRUE)
    /\ UNCHANGED <<session, summaryFiles, clock, cmdsLeft, faultsLeft, last>>

Next ==
    \/ ToolMissing
    \/ StartAborts
    \/ StartPanics
    \/ RunStart
    \/ NextNoSession
    \/ SessionUnreadable
    \/ RunNext
    \/ RunDone
    \/ RunStatus
    \/ Exit
    \/ EditPlan

\* sequences of commands from a fresh working copy, with few failures
Spec == Init /\ [][Next]_vars

\* one command in a working copy in use, with any failures
SpecOne == InitOne /\ [][Next]_vars

\* the commands that follow a completed rotation and a new start
SpecRotated == InitRotated /\ [][Next]_vars

-----------------------------------------------------------------------------
(* The fallback summary on its own, for notes around the 100-byte limit *)

\* n ASCII characters followed by m two-byte characters
LongNote(n, m) ==
    [i \in 1..(n + 2 * m) |-> IF i <= n THEN "a" ELSE IF (i - n) % 2 = 1 THEN "e1" ELSE "e2"]

InitNote ==
    /\ session = NoSession
    /\ planFiles = <<>>
    /\ summaryFiles = <<>>
    /\ clock = 0
    /\ cmdsLeft = 0
    /\ faultsLeft = 0
    /\ \E n \in 0..MaxAscii, m \in 0..MaxWide :
          last = [NoLast EXCEPT !.cmd = "note",
                                !.summary = [NoSummary EXCEPT !.driverNote = LongNote(n, m)]]

\* Generate when the backend fails
Fallback ==
    /\ last.cmd = "note"
    /\ \E b \in BaseBranches :
          last' = [last EXCEPT !.cmd = "fallback",
                               !.summary = fallbackSummary(last.summary.driverNote, b, clock)]
    /\ UNCHANGED <<session, planFiles, summaryFiles, clock, cmdsLeft, faultsLeft>>

SpecNote == InitNote /\ [][Fallback]_vars

-----------------------------------------------------------------------------
(* The session tracker on its own: internal/config/config.go *)

Sessions == { NewSession(b, d, t, reg) : b \in BaseBranches, d \in Drivers,
                                         t \in 0..MaxClock, reg \in BOOLEAN }

InitTracker ==
    /\ session \in {NoSession} \cup Sessions
    /\ planFiles = <<>>
    /\ summaryFiles = <<>>
    /\ clock = 0
    /\ cmdsLeft = MaxCmds
    /\ faultsLeft = MaxFaults
    /\ last = NoLast

\* SaveCurrentSession(s)
Begin ==
    /\ cmdsLeft > 0
    /\ \E s \in Sessions, ok \in {b \in BOOLEAN : b \/ faultsLeft > 0} :
          /\ session' = SaveCurrentSession(session, s, ok)
          /\ faultsLeft' = IF ok THEN faultsLeft ELSE faultsLeft - 1
          /\ last' = [NoLast EXCEPT !.cmd = "begin",
                                    !.result = IF ok THEN "ok" ELSE "err",
                                    !.calls = Append(last.calls, "begin"),
                                    !.sessBefore = session,
                                    !.newSession = s]
    /\ cmdsLeft' = cmdsLeft - 1
    /\ UNCHANGED <<planFiles, summaryFiles, clock>>

\* ClearCurrentSession()
Clear ==
    /\ cmdsLeft > 0
    /\ \E ok \in {b \in BOOLEAN : b \/ faultsLeft > 0} :
          /\ session' = ClearCurrentSession(session, ok)
          /\ faultsLeft' = IF ok THEN faultsLeft ELSE faultsLeft - 1
          /\ last' = [NoLast EXCEPT !.cmd = "clear",
                                    !.result = IF ClearCurrentSessionErr(session, ok)
                                               THEN "err" ELSE "ok",
                                    !.calls = Append(last.calls, "clear"),
                                    !.sessBefore = session]
    /\ cmdsLeft' = cmdsLeft - 1
    /\ UNCHANGED <<planFiles, summaryFiles, clock>>

\* LoadCurrentSession(): newSession is the session returned
Current ==
    /\ cmdsLeft > 0
    /\ last' = [NoLast EXCEPT !.cmd = "current",
                              !.result = "ok",
                              !.calls = Append(last.calls, "current"),
                              !.sessBefore = session,
                              !.newSession = LoadCurrentSession(session)]
    /\ cmdsLeft' = cmdsLeft - 1
    /\ UNCHANGED <<session, planFiles, summaryFiles, clock, faultsLeft>>

NextTracker == Begin \/ Clear \/ Current

SpecTracker == InitTracker /\ [][NextTracker]_vars

-----------------------------------------------------------------------------
(* The plan file of an arbitrary branch name: internal/plans/manager.go *)

NameAlphabet == {"a", "/", "\\"}

BranchNames == UNION { [1..n -> NameAlphabet] : n \in 0..MaxNameLen }

InitNames ==
    /\ session = NoSession
    /\ planFiles = <<>>
    /\ summaryFiles = <<>>
    /\ clock = 0
    /\ cmdsLeft = 0
    /\ faultsLeft = 0
    /\ \E b \in BranchNames : last = [NoLast EXCEPT !.cmd = "branch", !.branch = b]

\* SavePlan(branch, content) followed by LoadPlan(branch)
SaveThenLoad ==
    /\ last.cmd = "branch"
    /\ \E content \in Plans :
          /\ planFiles' = SavePlan(planFiles, last.branch, content, TRUE)
          /\ last' = [last EXCEPT !.cmd = "saved",
                                   !.R = content,
                                   !.L = LoadPlan(planFiles', last.branch)]
    /\ UNCHANGED <<session, summaryFiles, clock, cmdsLeft, faultsLeft>>

SpecNames == InitNames /\ [][SaveThenLoad]_vars

-----------------------------------------------------------------------------
(* Properties *)

\* the command that has just run was a rotation: a next that reached the hand-off,
\* or a done that found a Session
Rotated ==
    \/ last.cmd = "next" /\ last.mob # "not invoked"
    \/ last.cmd = "done" /\ last.mob # "not invoked" /\ last.sessBefore.exists

\* the steps that call the dashboard
RemoteSteps == {"GetPlan", "CreateWorkstream", "CreateRotation", "UpdatePlan"}

\* C1: after a next or a done that ran to completion, whatever dashboard and backend
\* failures occurred in it, no Session exists.
C1_NoSessionAfterRotation ==
    (last.cmd \in {"next", "done"} /\ last.result = "ok") => ~session.exists

\* C2: when `mob next` or `mob done` is invoked the Session is absent, whichever
\* earlier step failed.
C2_NoSessionAtHandOff ==
    (last.cmd \in {"next", "done"} /\ last.mob # "not invoked") => ~last.sessAtMob.exists

\* C3 as stated: a next that finds no Session fails with 'no active session' and
\* changes nothing (no summary file, no remote call, plan untouched, no hand-off).
C3_NextWithoutSessionOriginal ==
    [][(last = NoLast /\ last'.cmd = "next" /\ ~session.exists)
         => /\ last'.result = "err:no active session"
            /\ last'.mob = "not invoked"
            /\ \A i \in 1..Len(last'.calls) : last'.calls[i] = "mob version"
            /\ UNCHANGED <<session, planFiles, summaryFiles>>]_vars

\* C3: a next that finds no Session fails and changes nothing (no summary file, no
\* remote call, plan untouched, no hand-off); the error is 'no active session' when
\* the mob tool is installed, and the tool's 'not installed' error when it is not.
C3_NextWithoutSession ==
    [][(last = NoLast /\ last'.cmd = "next" /\ ~session.exists)
         => /\ last'.result = IF "mob version" \in last'.fails
                              THEN "err:mob missing" ELSE "err:no active session"
            /\ last'.mob = "not invoked"
            /\ \A i \in 1..Len(last'.calls) : last'.calls[i] = "mob version"
            /\ UNCHANGED <<session, planFiles, summaryFiles>>]_vars

C3_Witness ==
    /\ last.cmd = "next"
    /\ ~last.sessBefore.exists
    /\ last.result = "err:no active session"
    /\ planFiles # <<>>


\* the remote copy R of the plan: the text the dashboard holds for the branch, empty
\* when it holds none or was not asked
RemoteCopy(reply) == IF reply.kind \in {"json", "plain"} THEN reply.text ELSE ""

\* C4: reconciliation at start follows the decision table for every local copy L and
\* remote copy R (both absent: template; L absent: R; R absent: L; equal: unchanged;
\* different: R), and start never writes the remote plan.
C4_DecisionTable ==
    (last.cmd = "start" /\ last.result = "ok" /\ last.fails \cap {"GetPlan", "SavePlan"} = {})
    => LET L == last.L
           R == RemoteCopy(last.reply)
           after == LoadPlan(planFiles, last.branch)
       IN  /\ (L = "" /\ R = "") => after = DefaultPlanText(last.branch, clock)
           /\ (L = "" /\ R # "") => after = R
           /\ (L # "" /\ R = "") => after = L
           /\ (L # "" /\ R = L) => after = L
           /\ (L # "" /\ R # "" /\ R # L) => after = R
           /\ \A i \in 1..Len(last.calls) : last.calls[i] # "UpdatePlan"

\* C5: whenever a rotation completes with the dashboard configured and reachable, the
\* remote plan of the session's branch is overwritten with the stored local plan, also
\* when summary generation is skipped and no note is given.
C5_RemotePlanOverwritten ==
    (/\ Rotated
     /\ last.configured
     /\ last.fails \cap RemoteSteps = {}
     /\ LoadPlan(planFiles, last.branch) # "")
    => last.pushed = <<[branch |-> last.branch,
                        planText |-> LoadPlan(planFiles, last.branch)]>>

\* C6: every rotation writes exactly one new summary record; when generation is
\* skipped it is a minimal note-only summary.
C6_OneSummaryPerRotation ==
    (Rotated /\ "SaveSummary" \notin last.fails)
    => /\ last.saved = 1
       /\ last.summary.exists
       /\ SummaryFileName(last.summary) \in DOMAIN summaryFiles

\* C7: whatever the backend does (absent, error, unparseable output, a JSON object of
\* any shape), the summary synthesized has a non-empty tldr, a non-empty changes
\* list and a non-empty nextSteps list.
C7_SynthesizedSummaryWellFormed ==
    (last.cmd \in {"next", "done"} /\ \E i \in 1..Len(last.calls) : last.calls[i] = "claude")
    => /\ last.summary.exists
       /\ last.summary.tldr # <<>>
       /\ last.summary.changes # <<>>
       /\ last.summary.nextSteps # <<>>

\* C8: in next with a Session present and read, no failure of the diff, the backend, the
\* summary write, the rotation upload or the plan push aborts the command: `mob
\* next` is still invoked, last of all, and the command's result is its result; and
\* when the upload fails the summary file is still written locally.
C8_NextDegradesGracefully ==
    (last.cmd = "next" /\ last.sessBefore.exists
       /\ last.fails \cap {"mob version", "LoadCurrentSession"} = {})
    => /\ last.mob # "not invoked"
       /\ last.calls[Len(last.calls)] = "mob next"
       /\ last.result = IF "mob next" \in last.fails THEN "err:mob next" ELSE "ok"
       /\ ("CreateRotation" \in last.fails /\ "SaveSummary" \notin last.fails)
          => /\ SummaryFileName(last.summary) \in DOMAIN summaryFiles
             /\ summaryFiles[SummaryFileName(last.summary)]
                  = SummaryFileContent(last.summary)

C8_Witness ==
    /\ last.cmd = "next"
    /\ last.sessBefore.exists
    /\ {"diff", "claude", "CreateRotation", "UpdatePlan"} \subseteq last.fails
    /\ last.result = "ok"
    /\ SummaryFileName(last.summary) \in DOMAIN summaryFiles

\* C9: a failed fetch of the remote plan does not abort start: the local plan is
\* kept, or templated when there is none, and start goes on to write the Session.
C9_FetchFailureNotFatal ==
    (last.cmd = "start" /\ "GetPlan" \in last.fails)
    => /\ last.result = "ok"
       /\ last.calls[Len(last.calls)] = "SaveCurrentSession"
       /\ "SavePlan" \notin last.fails
          => LoadPlan(planFiles, last.branch)
               = IF last.L = "" THEN DefaultPlanText(last.branch, clock) ELSE last.L
       /\ "SaveCurrentSession" \notin last.fails
          => session.exists /\ session = last.newSession

C9_Witness ==
    /\ last.cmd = "start"
    /\ "GetPlan" \in last.fails
    /\ last.L # ""
    /\ LoadPlan(planFiles, last.branch) = last.L
    /\ session = last.newSession

\* C10: whenever start returns success a Session is present whose branch, driver and
\* start time are those of this start.
C10_StartWritesSession ==
    (last.cmd = "start" /\ last.result = "ok")
    => /\ session.exists
       /\ session.branch = last.newSession.branch
       /\ session.driverName = last.newSession.driverName
       /\ session.startedAt = last.newSession.startedAt

\* C11: a summary record is never changed or removed once written, also when two
\* rotations complete within the same clock second.
C11_SummariesImmutable ==
    [][\A f \in DOMAIN summaryFiles :
          f \in DOMAIN summaryFiles' /\ summaryFiles'[f] = summaryFiles[f]]_vars

\* C12: reconciling a second time, at any later time, with the local plan as the
\* first run left it and the same plan fetched, leaves every plan file as it is;
\* and the run issues no write to the remote plan.
C12_ReconciliationIdempotent ==
    (last.cmd = "start" /\ last.result = "ok" /\ "SavePlan" \notin last.fails)
    => /\ \A now \in Times :
             ApplyPlanDecision(planFiles, last.branch, last.R,
                               LoadPlan(planFiles, last.branch), now, TRUE) = planFiles
       /\ \A i \in 1..Len(last.calls) : last.calls[i] # "UpdatePlan"

C12_Witness ==
    /\ last.cmd = "start"
    /\ last.L = ""
    /\ last.R = ""
    /\ LoadPlan(planFiles, last.branch) = DefaultPlanText(last.branch, clock)
    /\ FormatSeconds(MaxClock) > FormatSeconds(clock)

\* C13: when the mob tool is missing, start, next and done each abort with the
\* tool's error before touching anything: the Session, the plans and the summaries
\* are unchanged, and no call other than the tool check is made.
C13_ToolMissingAborts ==
    [][(last = NoLast /\ "mob version" \in last'.fails)
         => /\ last'.cmd \in {"start", "next", "done"}
            /\ last'.result = "err:mob missing"
            /\ last'.mob = "not invoked"
            /\ last'.calls = <<"mob version">>
            /\ last'.uploaded = <<>> /\ last'.pushed = <<>>
            /\ UNCHANGED <<session, planFiles, summaryFiles>>]_vars

C13_Witness ==
    /\ last.cmd = "done"
    /\ last.result = "err:mob missing"
    /\ session.exists
    /\ planFiles # <<>>

\* C14: a done that finds no Session writes no summary and calls neither the backend
\* nor the dashboard; it still invokes `mob done`, returns its result, and leaves no
\* Session.
C14_DoneWithoutSession ==
    (last.cmd = "done" /\ ~last.sessBefore.exists /\ "mob version" \notin last.fails)
    => /\ last.calls = <<"mob version", "ClearCurrentSession", "mob done">>
       /\ ~last.summary.exists /\ last.saved = 0
       /\ last.uploaded = <<>> /\ last.pushed = <<>>
       /\ last.mob # "not invoked"
       /\ last.result = IF last.mob = "ok" THEN "ok" ELSE "err:mob done"
       /\ ~session.exists

C14_Witness ==
    /\ last.cmd = "done"
    /\ ~last.sessBefore.exists
    /\ last.configured
    /\ last.mob = "failed"
    /\ last.result = "err:mob done"

\* C15: after a successful start with no team configured and no local plan, whose
\* plan write succeeded, the templated plan exists for the branch, a Session exists
\* for that branch, and no call to the dashboard was made.
C15_ColdStart ==
    (/\ last.cmd = "start" /\ last.result = "ok"
     /\ ~last.configured /\ last.L = "" /\ "SavePlan" \notin last.fails)
    => /\ LoadPlan(planFiles, last.branch) = DefaultPlanText(last.branch, clock)
       /\ session.exists
       /\ session.branch = last.branch
       /\ \A i \in 1..Len(last.calls) : last.calls[i] \notin RemoteSteps

\* the number of characters of a note: a second byte continues a character
RECURSIVE Chars(_)
Chars(bytes) ==
    IF bytes = <<>> THEN 0
    ELSE (IF Head(bytes) = "e2" THEN 0 ELSE 1) + Chars(Tail(bytes))

\* C16: for a note longer than 100 characters the fallback tldr has exactly 100
\* characters and ends in "..."; for a non-empty note of at most 100 characters it
\* is the note; for the empty note it is the generic string.
C16_FallbackTldr ==
    last.cmd = "fallback"
    => LET note == last.summary.driverNote
           tldr == last.summary.tldr
       IN  /\ Chars(note) > FallbackLimit
              => /\ Chars(tldr) = FallbackLimit
                 /\ SubSeq(tldr, Len(tldr) - 2, Len(tldr)) = <<".", ".", ".">>
           /\ (note # <<>> /\ Chars(note) <= FallbackLimit) => tldr = note
           /\ note = <<>> => tldr = GenericTldr

\* C17: a start that succeeds while a Session exists replaces it: afterwards the
\* Session is exactly the one the new start built (branch, repository, driver,
\* start time, workstream id), with nothing left of the previous one.
C17_LastStartWins ==
    (last.cmd = "start" /\ last.result = "ok" /\ last.sessBefore.exists)
    => session = last.newSession

\* C18: clear() succeeds when no Session exists; a clear() after a successful
\* clear() succeeds and changes nothing; current() after a successful clear()
\* returns no session and no error; current() after a successful begin(s) returns
\* exactly s.
C18_TrackerAlgebra ==
    [][/\ (last'.cmd = "clear" /\ ~session.exists)
          => (last'.result = "ok" /\ session' = NoSession)
       /\ (last.cmd = "clear" /\ last.result = "ok" /\ last'.cmd = "clear")
          => (last'.result = "ok" /\ session' = session)
       /\ (last.cmd = "clear" /\ last.result = "ok" /\ last'.cmd = "current")
          => (last'.result = "ok" /\ ~last'.newSession.exists)
       /\ (last.cmd = "begin" /\ last.result = "ok" /\ last'.cmd = "current")
          => (last'.result = "ok" /\ last'.newSession = last.newSession)]_vars

C18_Witness ==
    /\ last.cmd = "current"
    /\ last.calls = <<"clear", "begin", "current">>
    /\ last.newSession.exists
    /\ last.newSession.workstreamId # ""

\* C19: for every branch name the plan file name contains neither "/" nor "\",
\* and deriving it again for the same branch gives the same name: the plan saved
\* for the branch is the one file there is, and loading the branch reads it back.
C19_PlanFileName ==
    last.cmd = "saved"
    => /\ \A i \in 1..Len(PlanFileName(last.branch)) :
             PlanFileName(last.branch)[i] \notin {"/", "\\"}
       /\ DOMAIN planFiles = {GetPlanPath(last.branch)}
       /\ last.L = last.R

C19_Witness ==
    /\ last.cmd = "saved"
    /\ last.branch = <<"a", "/", "\\", "a">>
    /\ last.L = "B"

\* the number of times a step was issued in the last command
Issued(x) == Cardinality({i \in 1..Len(last.calls) : last.calls[i] = x})

\* C20: in one next or done the summarization backend runs at most once and the
\* rotation upload and the plan push are each issued at most once, failed or not;
\* in one start the remote plan fetch and the workstream registration are each
\* issued at most once.
C20_NoRetry ==
    /\ last.cmd \in {"next", "done"}
          => \A x \in {"claude", "CreateRotation", "UpdatePlan"} : Issued(x) <= 1
    /\ last.cmd = "start"
          => \A x \in {"GetPlan", "CreateWorkstream"} : Issued(x) <= 1

C20_Witness ==
    /\ last.cmd = "next"
    /\ {"claude", "CreateRotation", "UpdatePlan"} \subseteq last.fails
    /\ \A x \in {"claude", "CreateRotation", "UpdatePlan"} : Issued(x) = 1

\* the command that runs in this step makes a rotation record: a summary file
\* written, or a rotation accepted by the dashboard
Records ==
    /\ last = NoLast
    /\ last'.cmd \in {"next", "done"}
    /\ (last'.saved > 0 \/ last'.uploaded # <<>>)

\* C21: a next or done makes a rotation record only while a Session exists, makes
\* at most one summary file and one upload, and, when clearing succeeds, leaves no
\* Session; only start brings a Session into existence; so each Session written
\* by start gets at most one record, and a next or done with no Session (repeated
\* without a start in between) adds no record.
C21_OneRecordPerSession ==
    [][/\ Records
          => /\ session.exists
             /\ last'.saved <= 1 /\ Len(last'.uploaded) <= 1
             /\ Cardinality(DOMAIN summaryFiles') <= Cardinality(DOMAIN summaryFiles) + 1
             /\ "ClearCurrentSession" \notin last'.fails => ~session'.exists
       /\ (~session.exists /\ session'.exists) => last'.cmd = "start"
       /\ (last = NoLast /\ last'.cmd \in {"next", "done"} /\ ~session.exists)
          => (summaryFiles' = summaryFiles /\ last'.uploaded = <<>> /\ last'.saved = 0)]_vars

\* a done repeated after a next that recorded the rotation
C21_Witness ==
    /\ last.cmd = "done"
    /\ last.result = "ok"
    /\ ~last.sessBefore.exists
    /\ Cardinality(DOMAIN summaryFiles) = 1
    /\ last.calls = <<"mob version", "ClearCurrentSession", "mob done">>

\* the command that runs in this step returns an error
Aborts == last = NoLast /\ last'.result \notin {"none", "ok", "panic"}

\* C22: a start, next or done that returns an error leaves the Session, the plan
\* files and the summary files as they were, has sent nothing to the dashboard,
\* and the mob tool has performed no start, hand-off or completion.
C22_AbortLeavesState ==
    [][Aborts => /\ UNCHANGED <<session, planFiles, summaryFiles>>
                 /\ last'.uploaded = <<>> /\ last'.pushed = <<>>
                 /\ last'.mob # "ok"]_vars

\* the steps whose failure degrades a command without ending it
DegradedSteps ==
    {"GetPlan", "CreateWorkstream", "CreateRotation", "UpdatePlan", "claude",
     "SaveSummary", "SavePlan"}

\* C23: in start, next and done every failed dashboard call, every failure of the
\* summarization backend and every failed write of a summary or a plan is reported
\* by a warning.
C23_DegradedStepsReported ==
    last.cmd \in {"start", "next", "done"}
    => \A x \in last.fails \cap DegradedSteps : x \in last.warned

\* C24: a start that finds a Session does not invoke `mob start` and does not write
\* a new Session.
C24_StartRequiresIdle ==
    (last.cmd = "start" /\ last.sessBefore.exists)
    => /\ last.mob = "not invoked"
       /\ \A i \in 1..Len(last.calls) :
             last.calls[i] \notin {"mob start", "SaveCurrentSession"}
       /\ session = last.sessBefore

\* C25: a start that succeeds although the registration failed has written a
\* Session with no workstream id; when the registration succeeds the Session that
\* start writes carries the id the dashboard returned; with no team configured
\* the registration is not attempted.
C25_RegistrationNotFatal ==
    (last.cmd = "start" /\ last.result = "ok")
    => /\ "CreateWorkstream" \in last.fails
          => (session.exists /\ session = last.newSession /\ session.workstreamId = "")
       /\ (last.configured /\ "CreateWorkstream" \notin last.fails)
          => /\ last.newSession.workstreamId = WorkstreamId(last.branch)
             /\ "SaveCurrentSession" \notin last.fails => session = last.newSession
       /\ ~last.configured
          => \A i \in 1..Len(last.calls) : last.calls[i] # "CreateWorkstream"

\* C26: no command removes a plan file, and only start changes one: next, done
\* and status leave every plan file with the content it had.
C26_PlanKeptAndWrittenByStartOnly ==
    [][/\ \A f \in DOMAIN planFiles : f \in DOMAIN planFiles'
       /\ (last' # NoLast /\ planFiles' # planFiles) => last'.cmd = "start"
       /\ (last = NoLast /\ last'.cmd \in {"next", "done", "status"})
          => planFiles' = planFiles]_vars

\* a status after a start and a rotation, showing the plan the start wrote
C26_Witness ==
    /\ last.cmd = "status"
    /\ summaryFiles # <<>>
    /\ last.L # ""
    /\ planFiles # <<>>

\* C27: a next or done that cannot read or parse an existing current.json returns
\* an error before it generates or writes a summary, before any dashboard call,
\* before it removes current.json and before it invokes `mob next` or `mob done`.
C27_UnreadableSessionAborts ==
    [][(last = NoLast /\ "LoadCurrentSession" \in last'.fails)
       => /\ last'.cmd \in {"next", "done"}
          /\ last'.result = "err:load session"
          /\ last'.mob = "not invoked"
          /\ last'.calls = <<"mob version", "LoadCurrentSession">>
          /\ ~last'.summary.exists /\ last'.saved = 0
          /\ last'.uploaded = <<>> /\ last'.pushed = <<>>
          /\ UNCHANGED <<session, planFiles, summaryFiles>>]_vars

C27_Witness ==
    /\ last.cmd = "done"
    /\ last.result = "err:load session"
    /\ session.exists
    /\ session.workstreamId # ""
    /\ planFiles # <<>>

\* C28: when the dashboard answers 200 with a JSON object whose planText is empty,
\* start takes the remote plan as absent: a local plan is kept as it is, a missing
\* one is templated, and the plan file never holds the raw response body.
C28_EmptyRemotePlanIsAbsent ==
    (/\ last.cmd = "start" /\ last.result = "ok"
     /\ last.reply.kind = "json" /\ last.reply.text = ""
     /\ "SavePlan" \notin last.fails)
    => LET after == LoadPlan(planFiles, last.branch)
       IN  /\ last.L # "" => after = last.L
           /\ last.L = "" => after = DefaultPlanText(last.branch, clock)
           /\ after # RawBody(last.reply)

\* C29: a start whose configuration file cannot be loaded is not aborted: it goes
\* on with the default configuration, reconciles the plan and writes a Session.
C29_StartSurvivesBadConfig ==
    (last.cmd = "start" /\ "config" \in last.fails)
    => /\ last.result = "ok"
       /\ ~last.configured
       /\ \E i \in 1..Len(last.calls) : last.calls[i] = "SaveCurrentSession"
       /\ "SavePlan" \notin last.fails => LoadPlan(planFiles, last.branch) # ""

\* C30: distinct branch names have distinct plan files, so a start on one branch
\* leaves the plan of every other branch as it was.
C30_OnePlanFilePerBranch ==
    [][(last = NoLast /\ last'.cmd = "start" /\ last'.result = "ok")
       => \A b \in BaseBranches \ {last'.branch} :
             /\ GetPlanPath(b) # GetPlanPath(last'.branch)
             /\ LoadPlan(planFiles', b) = LoadPlan(planFiles, b)]_vars

\* C31: a start whose `mob start` fails returns that error having written nothing:
\* the Session, present or absent, and every plan file are as before, and neither
\* the plan fetch nor the workstream registration has been issued.
C31_ToolStartFailureWritesNothing ==
    [][(last = NoLast /\ "mob start" \in last'.fails)
       => /\ last'.cmd = "start"
          /\ last'.result = "err:mob start"
          /\ last'.mob = "failed"
          /\ \A i \in 1..Len(last'.calls) : last'.calls[i] \notin RemoteSteps
          /\ last'.calls[Len(last'.calls)] = "mob start"
          /\ UNCHANGED <<session, planFiles, summaryFiles>>]_vars

C31_Witness ==
    /\ last.cmd = "start"
    /\ last.result = "err:mob start"
    /\ session.exists
    /\ session = last.sessBefore
    /\ planFiles # <<>>

\* C32: when `mob next` or `mob done` fails the command returns that error and the
\* Session stays as the clearing left it, absent when the clearing succeeded; the
\* summary written in the command remains; and a next that runs with no Session
\* returns "no active session" and writes no summary.
C32_ToolFailureAfterClear ==
    [][/\ (last = NoLast /\ last'.cmd \in {"next", "done"} /\ last'.mob = "failed")
          => /\ last'.result = "err:mob " \o last'.cmd
             /\ session' = last'.sessAtMob
             /\ "ClearCurrentSession" \notin last'.fails => ~session'.exists
             /\ last'.saved = 1
                => /\ SummaryFileName(last'.summary) \in DOMAIN summaryFiles'
                   /\ summaryFiles'[SummaryFileName(last'.summary)]
                        = SummaryFileContent(last'.summary)
       /\ (last = NoLast /\ last'.cmd = "next" /\ ~session.exists
              /\ "mob version" \notin last'.fails)
          => /\ last'.result = "err:no active session"
             /\ last'.saved = 0
             /\ UNCHANGED <<session, planFiles, summaryFiles>>]_vars

\* a next whose `mob next` failed after the summary was written and the Session
\* cleared
C32_Witness ==
    /\ last.cmd = "next"
    /\ last.result = "err:mob next"
    /\ last.sessBefore.exists
    /\ ~session.exists
    /\ last.saved = 1
    /\ SummaryFileName(last.summary) \in DOMAIN summaryFiles

\* C33: the summary file a next or done writes and the rotation it uploads carry
\* the driver name and the branch of the Session the command found; the plan that
\* next snapshots and pushes is the one stored under that Session's branch; and
\* start records in the Session the branch under which it reconciled the plan.
C33_AttributionAndKeying ==
    /\ last.cmd \in {"next", "done"}
       => LET sess == last.sessBefore
              stored == LoadPlan(planFiles, sess.branch)
          IN  /\ last.saved = 1
                 => LET written == summaryFiles[SummaryFileName(last.summary)]
                    IN  /\ written.driverName = sess.driverName
                        /\ written.branch = sess.branch
              /\ \A i \in 1..Len(last.uploaded) :
                    /\ last.uploaded[i].driverName = sess.driverName
                    /\ last.uploaded[i].branch = sess.branch
                    /\ last.uploaded[i].startedAt = sess.startedAt
                    /\ last.uploaded[i].planSnapshot = stored
              /\ \A i \in 1..Len(last.pushed) :
                    /\ last.pushed[i].branch = sess.branch
                    /\ last.pushed[i].planText = stored
    /\ (last.cmd = "start" /\ last.result = "ok")
       => /\ last.newSession.branch = last.branch
          /\ "SavePlan" \notin last.fails
             => GetPlanPath(last.newSession.branch) \in DOMAIN planFiles

\* a next after a start, with the summary generated, uploaded and the plan pushed
C33_Witness ==
    /\ last.cmd = "next"
    /\ last.saved = 1
    /\ last.uploaded # <<>>
    /\ last.pushed # <<>>
    /\ \E i \in 1..Len(last.calls) : last.calls[i] = "claude"
    /\ last.sessBefore.driverName = "bob"
    /\ last.sessBefore.branch = <<"a", "-", "b">>

=============================================================================
